---------------------------- MODULE Spec2Model ----------------------------
(***************************************************************************)
(* A model of l1l2py: the FISTA solver and regularization path of          *)
(* src/l1l2py/classification.py and the two-stage model selection of       *)
(* src/_core.py.                                                           *)
(*                                                                         *)
(* Real numbers are fixed-point integers: the integer a stands for         *)
(* a / Scale.  A tolerance is kept as an exact fraction <<num, den>>.      *)
(***************************************************************************)
EXTENDS Integers, Sequences, FiniteSets, TLC

\* ------------------------------------------------------------------ bounds
Scale == 1000       \* fixed-point resolution: 1.0 is Scale
MaxIter == 3        \* largest iteration cap a caller passes
MaxAlphas == 3      \* longest penalty grid a caller passes

\* ------------------------------------------------- constants of the program
Eps == 1            \* np.finfo(float).eps: the smallest positive step here
DefaultMaxIter == 1000
DefaultTolNum == 1
DefaultTolDen == 10000

\* ------------------------------------------------------------- arithmetic
Abs(a) == IF a < 0 THEN -a ELSE a

Sign(a) == IF a > 0 THEN 1 ELSE IF a < 0 THEN -1 ELSE 0

\* integer quotient rounding toward zero, b > 0
Quot(a, b) == IF a >= 0 THEN a \div b ELSE -((-a) \div b)

\* fixed-point product and quotient
FMul(a, b) == Quot(a * b, Scale)

FDiv(a, b) == IF b > 0 THEN Quot(a * Scale, b) ELSE -Quot(a * Scale, -b)

RECURSIVE ISqrtBetween(_, _, _)
ISqrtBetween(lo, hi, n) ==
    IF lo >= hi THEN lo
    ELSE LET mid == (lo + hi + 1) \div 2
         IN  IF mid * mid <= n THEN ISqrtBetween(mid, hi, n)
             ELSE ISqrtBetween(lo, mid - 1, n)

\* fixed-point square root of a >= 0
FSqrt(a) == ISqrtBetween(0, 46340, a * Scale)

\* ---------------------------------------------------------------- vectors
Zeros(p) == [j \in 1..p |-> 0]

RECURSIVE SumSeq(_)
SumSeq(s) == IF s = <<>> THEN 0 ELSE Head(s) + SumSeq(Tail(s))

RECURSIVE MaxSeq(_)
MaxSeq(s) ==
    IF Len(s) = 1 THEN s[1]
    ELSE LET m == MaxSeq(Tail(s)) IN IF s[1] >= m THEN s[1] ELSE m

Dot(u, v) == SumSeq([j \in 1..Len(u) |-> FMul(u[j], v[j])])

VSub(u, v) == [j \in 1..Len(u) |-> u[j] - v[j]]

VAdd(u, v) == [j \in 1..Len(u) |-> u[j] + v[j]]

VScale(c, v) == [j \in 1..Len(v) |-> FMul(c, v[j])]

VAbs(v) == [j \in 1..Len(v) |-> Abs(v[j])]

AllZero(v) == \A j \in 1..Len(v) : v[j] = 0

\* a matrix is the sequence of its rows
NRows(M) == Len(M)

NCols(M) == Len(M[1])

Column(M, j) == [i \in 1..NRows(M) |-> M[i][j]]

\* np.dot(M, v)
MatVec(M, v) == [i \in 1..NRows(M) |-> Dot(M[i], v)]

\* np.dot(M.T, v)
TMatVec(M, v) == [j \in 1..NCols(M) |-> Dot(Column(M, j), v)]

\* np.dot(M, M.T)
GramRows(M) == [i \in 1..NRows(M) |-> [k \in 1..NRows(M) |-> Dot(M[i], M[k])]]

\* np.dot(M.T, M)
GramCols(M) ==
    [j \in 1..NCols(M) |-> [k \in 1..NCols(M) |-> Dot(Column(M, j), Column(M, k))]]

\* la.norm(tmp, 2) of a symmetric positive semi-definite matrix that is
\* diagonal (1 x 1 included): its largest diagonal entry.
Norm2(tmp) == MaxSeq([j \in 1..Len(tmp) |-> Abs(tmp[j][j])])

\* _sigma(matrix, mu)
Sigma(matrix, mu) ==
    LET n == NRows(matrix)
        p == NCols(matrix)
        tmp == IF p > n THEN GramRows(matrix) ELSE GramCols(matrix)
    IN  Quot(Norm2(tmp), n) + mu


\* ------------------------------------------------------------------ state
VARIABLES
    call,       \* the caller's arguments of the running entry point
    fista,      \* the frame of fista_l1l2: its locals and its return value
    path,       \* the frame of l1l2_regularization
    soft,       \* the soft-thresholding step applied on its own
    top,        \* the caller's arguments of the running selection entry point
    ms,         \* the frame of model_selection
    mm,         \* the frame of minimal_model
    nl          \* the frame of nested_lists

selVars == <<top, ms, mm, nl>>

\* ------------------------------------------------------------- fista_l1l2
NoFista == [pc |-> "idle"]

\* The soft-thresholding step: np.clip(np.abs(value) - tau_s, 0, np.inf,
\* beta_next); beta_next *= np.sign(value)
SoftThresholdingNoSign(value, tau_s) ==
    [j \in 1..Len(value) |->
        IF Abs(value[j]) - tau_s < 0 THEN 0 ELSE Abs(value[j]) - tau_s]

SoftThresholding(value, tau_s) ==
    [j \in 1..Len(value) |->
        (IF Abs(value[j]) - tau_s < 0 THEN 0 ELSE Abs(value[j]) - tau_s)
            * Sign(value[j])]

\* fista_l1l2 from its entry to the top of the loop (adaptive = False).
\*   two-item return when sigma is numerically zero;
\*   max_iter = 0: the loop body never runs and the return statement reads
\*   the unbound loop variable n_iter.
FistaEnter(beta, tau, mu, X, y, max_iter, tol) ==
    LET n_samples == Len(y)
        n_features == Len(beta)
        sigma == Sigma(X, mu)
        frame == [pc |-> "loop", beta0 |-> beta, tau |-> tau, mu |-> mu,
                  max_iter |-> max_iter, tol |-> tol,
                  n_samples |-> n_samples, n_features |-> n_features,
                  XTY |-> IF n_samples > n_features THEN TMatVec(X, y) ELSE <<>>,
                  sigma |-> sigma, mu_s |-> 0, tau_s |-> 0, nsigma |-> 0,
                  aux_beta |-> beta, beta_next |-> Zeros(n_features),
                  beta_is_next |-> FALSE, value |-> Zeros(n_features),
                  prev |-> beta, t |-> Scale, n_iter |-> -1,
                  max_diff |-> 0, max_coef |-> 0, model |-> <<>>]
    IN  IF sigma < Eps
        THEN [frame EXCEPT !.pc = "returned", !.model = <<beta, 0>>]
        ELSE IF max_iter <= 0
        THEN [frame EXCEPT !.pc = "raised", !.model = <<"UnboundLocalError">>,
                           !.mu_s = FDiv(mu, sigma),
                           !.tau_s = FDiv(tau, 2 * sigma),
                           !.nsigma = n_samples * sigma]
        ELSE [frame EXCEPT !.mu_s = FDiv(mu, sigma),
                           !.tau_s = FDiv(tau, 2 * sigma),
                           !.nsigma = n_samples * sigma]

\* `beta = beta_next` binds the name beta to the buffer beta_next, which the
\* next np.clip(..., beta_next) overwrites in place: from the second
\* iteration on, beta and beta_next are one array.
FistaBetaBound(f, beta_next) == IF f.beta_is_next THEN beta_next ELSE f.beta0

\* The stopping rule: max_coef == 0.0 or (max_diff / max_coef) <= tol
StoppingRule(max_diff, max_coef, tol) ==
    \/ max_coef = 0
    \/ max_diff * tol[2] <= tol[1] * max_coef

\* One pass of the loop body, and the return that follows a break or the
\* last pass.
FistaBody(f, X, y) ==
    LET n_iter == f.n_iter + 1
        precalc == IF f.n_samples > f.n_features
                   THEN VSub(f.XTY, TMatVec(X, MatVec(X, f.aux_beta)))
                   ELSE TMatVec(X, VSub(y, MatVec(X, f.aux_beta)))
        value == VAdd([j \in 1..f.n_features |-> FDiv(precalc[j], f.nsigma)],
                      VScale(Scale - f.mu_s, f.aux_beta))
        beta_next == SoftThresholding(value, f.tau_s)
        beta_diff == VSub(beta_next, FistaBetaBound(f, beta_next))
        t_next == Quot(Scale + FSqrt(Scale + 4 * FMul(f.t, f.t)), 2)
        aux_beta == VAdd(beta_next, VScale(FDiv(f.t - Scale, t_next), beta_diff))
        max_diff == MaxSeq(VAbs(beta_diff))
        max_coef == MaxSeq(VAbs(beta_next))
        stop == StoppingRule(max_diff, max_coef, f.tol)
        last == n_iter + 1 >= f.max_iter
    IN  [f EXCEPT !.n_iter = n_iter, !.value = value,
                  !.prev = IF f.beta_is_next THEN f.beta_next ELSE f.beta0,
                  !.beta_next = beta_next, !.beta_is_next = TRUE,
                  !.aux_beta = aux_beta, !.t = t_next,
                  !.max_diff = max_diff, !.max_coef = max_coef,
                  !.pc = IF stop \/ last THEN "returned" ELSE "loop",
                  !.model = IF stop \/ last
                            THEN <<beta_next, "None", f.tol, n_iter + 1>>
                            ELSE <<>>]

FistaIter ==
    /\ fista.pc = "loop"
    /\ fista' = FistaBody(fista, call.X, call.y)
    /\ UNCHANGED <<call, path, soft, selVars>>

\* ---------------------------------------------------- l1l2_regularization
NoPath == [pc |-> "idle"]

\* insertion of a into the descending sequence s
RECURSIVE InsertDesc(_, _)
InsertDesc(a, s) ==
    IF s = <<>> THEN <<a>>
    ELSE IF a >= Head(s) THEN <<a>> \o s
    ELSE <<Head(s)>> \o InsertDesc(a, Tail(s))

\* np.sort(alphas)[::-1]
RECURSIVE SortDescending(_)
SortDescending(s) ==
    IF s = <<>> THEN <<>> ELSE InsertDesc(Head(s), SortDescending(Tail(s)))

\* tol = params.get('tol', 1e-4); max_iter = params.get('max_iter', 1000):
\* tol and max_iter are named parameters of l1l2_regularization, so neither
\* is ever a key of **params and both lookups yield their defaults.
ParamsTol(c) == <<DefaultTolNum, DefaultTolDen>>

ParamsMaxIter(c) == DefaultMaxIter

\* l1l2_regularization from its entry to the top of the loop over alphas
\* (dense X, one output, alphas given).
PathEnter ==
    /\ call.mode = "path"
    /\ path.pc = "idle"
    /\ LET alphas == SortDescending(call.alphas)
           n_alphas == Len(alphas)
           n_features == NCols(call.X)
       IN  path' = [pc |-> "loop", alphas |-> alphas, n_alphas |-> n_alphas,
                    tol |-> ParamsTol(call), max_iter |-> ParamsMaxIter(call),
                    coefs |-> [j \in 1..n_alphas |-> <<>>],
                    dual_gaps |-> [j \in 1..n_alphas |-> "empty"],
                    n_iters |-> <<>>,
                    coef_ |-> IF call.coef_init = <<>>
                              THEN Zeros(n_features) ELSE call.coef_init,
                    i |-> 0, l1_reg |-> 0, l2_reg |-> 0, raised |-> "no"]
    /\ UNCHANGED <<call, fista, soft, selVars>>

\* The head of one pass of the loop over alphas: the penalties and the
\* dispatch on precompute, down to the call of fista_l1l2.
PathSolve ==
    /\ path.pc = "loop"
    /\ path.i < path.n_alphas
    /\ LET alpha == path.alphas[path.i + 1]
           l1_reg == FMul(alpha, call.l1_ratio) * 2
           l2_reg == FMul(alpha, Scale - call.l1_ratio)
           p == [path EXCEPT !.l1_reg = l1_reg, !.l2_reg = l2_reg]
       IN  \/ /\ call.precompute = "ndarray"
              /\ path' = [p EXCEPT !.pc = "raised",
                                   !.raised = "NotImplementedError"]
              /\ UNCHANGED fista
           \/ /\ call.precompute = "False"
              /\ fista' = FistaEnter(path.coef_, l1_reg, l2_reg, call.X, call.y,
                                     path.max_iter, path.tol)
              /\ path' = [p EXCEPT !.pc = "solving"]
           \/ /\ call.precompute \notin {"ndarray", "False"}
              /\ path' = [p EXCEPT !.pc = "raised", !.raised = "ValueError"]
              /\ UNCHANGED fista
    /\ UNCHANGED <<call, soft, selVars>>

\* The rest of the pass: coef_, dual_gap_, eps_, n_iter_ = model and the
\* stores.  Unpacking a model that has not four items raises ValueError.
\* dual_gap_ is None, so `dual_gap_ > eps_` is false and nothing is warned.
\* The cap handed to fista_l1l2 is never 0 here, so the call always returns.
PathStore ==
    /\ path.pc = "solving"
    /\ fista.pc = "returned"
    /\ \/ /\ Len(fista.model) # 4
          /\ path' = [path EXCEPT !.pc = "raised", !.raised = "ValueError"]
       \/ /\ Len(fista.model) = 4
          /\ path' = [path EXCEPT !.pc = "loop",
                                  !.coef_ = fista.model[1],
                                  !.coefs[path.i + 1] = fista.model[1],
                                  !.dual_gaps[path.i + 1] = fista.model[2],
                                  !.n_iters = Append(@, fista.model[4]),
                                  !.i = @ + 1]
    /\ UNCHANGED <<call, fista, soft, selVars>>

\* return alphas, coefs, dual_gaps
PathReturn ==
    /\ path.pc = "loop"
    /\ path.i = path.n_alphas
    /\ path' = [path EXCEPT !.pc = "done"]
    /\ UNCHANGED <<call, fista, soft, selVars>>

\* fista_l1l2 called on its own
DirectCall ==
    /\ call.mode = "direct"
    /\ fista.pc = "idle"
    /\ fista' = FistaEnter(IF call.coef_init = <<>>
                           THEN Zeros(NCols(call.X)) ELSE call.coef_init,
                           call.tau, call.mu, call.X, call.y,
                           call.max_iter, call.tol)
    /\ UNCHANGED <<call, path, soft, selVars>>

\* ----------------------------------------------------------------- inputs
Datasets ==
    { [X |-> << <<Scale, 2 * Scale>> >>, y |-> <<Scale>>],
      [X |-> << <<Scale>>, <<2 * Scale>> >>, y |-> <<Scale, -Scale>>],
      [X |-> << <<0, 0>> >>, y |-> <<Scale>>],
      [X |-> << <<Scale, 0>>, <<0, 2 * Scale>> >>, y |-> <<2 * Scale, -2 * Scale>>] }

AlphaVals == {Scale, 2 * Scale, 4 * Scale}

Grids == UNION {[1..n -> AlphaVals] : n \in 0..MaxAlphas}

L1Ratios == {Scale \div 2, Scale}

Tols == {<<0, 1>>, <<1, 10>>}

\* coef_init: <<>> stands for None
WarmStarts(d) == {<<>>, [j \in 1..NCols(d.X) |-> Scale]}

NoCall == [mode |-> "none"]

PathCalls ==
    { [mode |-> "path", X |-> d.X, y |-> d.y, alphas |-> g, l1_ratio |-> r,
       max_iter |-> m, tol |-> tl, precompute |-> "False",
       coef_init |-> <<>>, tau |-> 0, mu |-> 0] :
        d \in Datasets, g \in Grids, r \in L1Ratios, m \in 1..MaxIter, tl \in Tols }
    \cup
    UNION { { [mode |-> "path", X |-> d.X, y |-> d.y, alphas |-> <<Scale>>,
               l1_ratio |-> Scale \div 2, max_iter |-> 1, tol |-> <<1, 10>>,
               precompute |-> pre, coef_init |-> w, tau |-> 0, mu |-> 0] :
                pre \in {"False", "ndarray", "auto"}, w \in WarmStarts(d) } :
            d \in Datasets }

DirectCalls ==
    UNION { { [mode |-> "direct", X |-> d.X, y |-> d.y, alphas |-> <<>>,
               l1_ratio |-> 0, max_iter |-> m, tol |-> tl,
               precompute |-> "False", coef_init |-> w, tau |-> ta, mu |-> mu] :
                m \in 0..MaxIter, tl \in Tols \cup {<<-1, 1>>},
                w \in WarmStarts(d), ta \in {0, Scale \div 2, 2 * Scale},
                mu \in {0, Scale \div 2} } :
            d \in Datasets }

NoSoft == [pc |-> "idle"]

NoTop == [entry |-> "none"]

NoFrame == [pc |-> "idle"]

\* --------------------------------------- the solver and the path: SpecPath
InitPath ==
    /\ call \in PathCalls \cup DirectCalls
    /\ fista = NoFista
    /\ path = NoPath
    /\ soft = NoSoft
    /\ top = NoTop
    /\ ms = NoFrame
    /\ mm = NoFrame
    /\ nl = NoFrame

NextPath ==
    \/ PathEnter
    \/ PathSolve
    \/ PathStore
    \/ PathReturn
    \/ DirectCall
    \/ FistaIter

SpecPath == InitPath /\ [][NextPath]_<<call, fista, path, soft, selVars>>

\* ------------------------------------------------- claims on the solver
FistaFinished == fista.pc \in {"returned", "raised"}

SigmaIsZero == fista.pc # "idle" /\ fista.sigma < Eps

\* the relative change between the iterate produced at the last pass and the
\* iterate produced at the pass before it (the warm start at the first pass)
TrueChangeWithinTol ==
    MaxSeq(VAbs(VSub(fista.beta_next, fista.prev))) * fista.tol[2]
        <= fista.tol[1] * MaxSeq(VAbs(fista.beta_next))

\* C3: the path is in the order of the caller's grid: entry j of the path
\* is the solution computed for the j-th penalty as the caller passed it,
\* and the path has at most as many entries as the grid.
C3_PathInCallerOrder ==
    path.pc = "done" =>
        /\ Len(path.coefs) <= Len(call.alphas)
        /\ \A j \in 1..Len(path.coefs) : path.alphas[j] = call.alphas[j]

\* C4: saturation: once two consecutive solved coefficient vectors are
\* entirely zero, no further penalty of the grid is solved and the returned
\* path has strictly fewer entries than the grid.
C4_Saturation ==
    path.pc \in {"loop", "solving", "done"} =>
        \A j \in 1..path.n_alphas :
            (/\ j + 1 < path.n_alphas
             /\ j + 1 <= path.i
             /\ AllZero(path.coefs[j])
             /\ AllZero(path.coefs[j + 1]))
                => /\ path.i = j + 1
                   /\ path.pc # "solving"
                   /\ path.pc = "done" => Len(path.coefs) < Len(call.alphas)

\* C5: with max_iter >= 1 and sigma not zero fista_l1l2 returns an iteration
\* count k, 1 <= k <= max_iter, and it stops at k < max_iter only if the
\* iterate produced at k is all zero or the relative change from the iterate
\* produced at k-1 is at most tol.
C5_StopsOnlyWhenConverged ==
    (FistaFinished /\ fista.max_iter >= 1 /\ ~SigmaIsZero) =>
        /\ fista.pc = "returned"
        /\ Len(fista.model) = 4
        /\ fista.model[4] >= 1
        /\ fista.model[4] <= fista.max_iter
        /\ fista.model[4] < fista.max_iter =>
              (AllZero(fista.beta_next) \/ TrueChangeWithinTol)

\* C6: every fista_l1l2 call of a path uses the iteration cap and the
\* tolerance the caller of l1l2_regularization supplied.
C6_CallerCapAndTolUsed ==
    (call.mode = "path" /\ fista.pc # "idle") =>
        /\ fista.max_iter = call.max_iter
        /\ fista.tol = call.tol
        /\ fista.n_iter + 1 <= call.max_iter

\* C7: when sigma is numerically zero the solver performs no iteration and
\* the solve completes without error, yielding the warm start unchanged,
\* for fista_l1l2 called directly and for a path alike.
C7_ZeroSigmaIsNoOp ==
    SigmaIsZero =>
        /\ fista.pc = "returned"
        /\ fista.n_iter = -1
        /\ fista.model[1] = fista.beta0
        /\ call.mode = "path" =>
              /\ path.pc # "raised"
              /\ path.pc \in {"loop", "done"} => path.coef_ = fista.beta0

\* --------------------------------- soft thresholding on its own: SpecSoft
MaxValue == 4       \* largest |component| of a thresholded vector
MaxThreshold == 3   \* largest tau_s

SoftApply ==
    /\ soft.pc = "ready"
    /\ soft' = [soft EXCEPT !.pc = "done",
                            !.out = SoftThresholding(soft.value, soft.tau_s)]
    /\ UNCHANGED <<call, fista, path, selVars>>

InitSoft ==
    /\ soft \in { [pc |-> "ready", value |-> v, tau_s |-> ts, out |-> <<>>] :
                    v \in [1..2 -> -MaxValue..MaxValue], ts \in 0..MaxThreshold }
    /\ call = NoCall
    /\ fista = NoFista
    /\ path = NoPath
    /\ top = NoTop
    /\ ms = NoFrame
    /\ mm = NoFrame
    /\ nl = NoFrame

NextSoft == SoftApply

SpecSoft == InitSoft /\ [][NextSoft]_<<call, fista, path, soft, selVars>>

\* C8: with t / 2 = tau_s >= 0, component i of the thresholded vector is 0
\* if and only if |v_i| <= t / 2, and is v_i - sign(v_i) * t / 2 otherwise.
C8_SoftThresholding ==
    soft.pc = "done" =>
        LET t == 2 * soft.tau_s
        IN  \A i \in 1..Len(soft.value) :
               /\ soft.out[i] = 0 <=> 2 * Abs(soft.value[i]) <= t
               /\ soft.out[i] # 0 =>
                     2 * soft.out[i] = 2 * soft.value[i] - Sign(soft.value[i]) * t

C8_Witness ==
    /\ soft.pc = "done"
    /\ soft.tau_s > 0
    /\ \E i, j \in 1..Len(soft.value) :
          /\ soft.value[i] # 0 /\ soft.out[i] = 0
          /\ soft.out[j] < 0

\* ============================================================== _core.py
MaxTau == 2         \* longest sparsity grid tau_range
MaxLambda == 2      \* longest ridge grid lambda_range
MaxFolds == 2       \* most folds in cv_splits
MaxMu == 2          \* longest mu_range
MaxProfile == 2     \* error profiles 0..MaxProfile a fold's data can show
NFeatures == 2      \* columns of the data matrix

\* a mean is the exact fraction <<sum, count>>, count > 0
RatLess(a, b) == a[1] * b[2] < b[1] * a[2]

RatEq(a, b) == a[1] * b[2] = b[1] * a[2]

\* ------------------------------------------------- external collaborators
\* error_function applied to the refit of path entry j with lambda_range[k]
\* on a fold whose data shows profile s: flat, growing, shrinking, mixed.
TestError(s, j, k) ==
    CASE s = 0 -> 1
      [] s = 1 -> j + k
      [] s = 2 -> 2 * MaxTau + MaxLambda - 2 * j - k
      [] OTHER -> (s * j + k) % 3

TrainError(s, j, k) == TestError(s, k, j) + 1

\* elastic_net(data, labels, mu, tau): a coefficient vector that shrinks to
\* zero as the penalties grow.
ElasticNet(mu, tau) ==
    [f \in 1..NFeatures |-> IF 2 * f > mu + tau THEN 2 * f - mu - tau ELSE 0]

\* ridge_regression(data[:, selected], labels, lambda_) and the errors of
\* its predictions: terms over their arguments.
RidgeRegression(selected, lambda_) == [ridge |-> selected, penalty |-> lambda_]

ErrorOf(which, beta) == [error |-> which, of |-> beta]

\* ---------------------------------------------------------- minimal_model
\* selected = (b.flat != 0)
Selected(b) == [f \in 1..Len(b) |-> b[f] # 0]

\* a[:n]
Take(a, n) == SubSeq(a, 1, IF n < Len(a) THEN n ELSE Len(a))

\* np.asarray([a[:max_tau_num] for a in err]).mean(axis=0): the rows and
\* columns of the result and its cells
MeanRows(err, max_tau_num) == Len(Take(err[1], max_tau_num))

MeanSurfaceFirstFoldOnly(err, max_tau_num, ncols) ==
    [j \in 1..MeanRows(err, max_tau_num) |->
        [k \in 1..ncols |-> <<Take(err[1], max_tau_num)[j][k], 1>>]]

MeanSurface(err, max_tau_num, ncols) ==
    [j \in 1..MeanRows(err, max_tau_num) |->
        [k \in 1..ncols |->
            <<SumSeq([f \in 1..Len(err) |-> Take(err[f], max_tau_num)[j][k]]),
              Len(err)>>]]

\* err_ts.min()
RECURSIVE RatMin(_)
RatMin(cells) ==
    IF Len(cells) = 1 THEN cells[1]
    ELSE LET m == RatMin(Tail(cells))
         IN  IF RatLess(m, cells[1]) THEN m ELSE cells[1]

RECURSIVE Flatten(_)
Flatten(rows) == IF rows = <<>> THEN <<>> ELSE Head(rows) \o Flatten(Tail(rows))

\* np.where(err_ts == err_ts.min()): the index pairs of the cells that hold,
\* in row-major order, given the surface and the value looked for
RECURSIVE WhereFrom(_, _, _, _)
WhereFrom(surface, value, j, k) ==
    IF j > Len(surface) THEN <<>>
    ELSE IF k > Len(surface[j]) THEN WhereFrom(surface, value, j + 1, 1)
    ELSE (IF RatEq(surface[j][k], value) THEN << <<j, k>> >> ELSE <<>>)
            \o WhereFrom(surface, value, j, k + 1)

WhereLast(surface, value) ==
    LET w == WhereFrom(surface, value, 1, 1) IN <<w[Len(w)]>>

Where(surface, value) == WhereFrom(surface, value, 1, 1)

\* the entry of minimal_model: lines 76 to 78
MinimalModelEnter(mu, tau_range, lambda_range, n_folds, returns_kcv_errors) ==
    [pc |-> "folds", mu |-> mu, tau_range |-> tau_range,
     lambda_range |-> lambda_range, n_folds |-> n_folds,
     returns_kcv_errors |-> returns_kcv_errors,
     err_ts |-> <<>>, err_tr |-> <<>>, max_tau_num |-> Len(tau_range),
     fold |-> 0, grids |-> <<>>, casc_lens |-> <<>>, refits |-> <<>>,
     surface_ts |-> <<>>, surface_tr |-> <<>>, shape |-> <<>>,
     out |-> <<>>, raised |-> "no"]

\* max_tau_num after a fold whose path has casc_len entries
NextMaxTauNum(max_tau_num, casc_len) ==
    IF casc_len < max_tau_num THEN casc_len ELSE max_tau_num

\* the grid handed to the path solver of a fold: tau_range[:max_tau_num]
FoldGridWhole(tau_range, max_tau_num) == tau_range

FoldGrid(tau_range, max_tau_num) == Take(tau_range, max_tau_num)

\* elastic_net_regpath(data_tr, labels_tr, mu, grid) when it answers with
\* casc_len entries: one coefficient vector for each of the first penalties
ElasticNetRegpath(mu, grid, casc_len) ==
    [j \in 1..casc_len |-> ElasticNet(mu, grid[j])]

\* the masks ridge_regression is called on in the refit loops of a fold,
\* path entry by path entry; no call is made when lambda_range is empty
RidgeCalls(beta_casc, ncols) ==
    IF ncols = 0 THEN <<>>
    ELSE [j \in 1..Len(beta_casc) |-> Selected(beta_casc[j])]

\* One pass of the loop over cv_splits.  The path solver is handed
\* tau_range[:max_tau_num] and answers with casc_len <= len(grid) entries;
\* the fold's data shows error profile s.
MM_Fold ==
    /\ mm.pc = "folds"
    /\ mm.fold < mm.n_folds
    /\ LET grid == FoldGrid(mm.tau_range, mm.max_tau_num)
           ncols == Len(mm.lambda_range)
       IN  \E casc_len \in 0..Len(grid), s \in 0..MaxProfile :
              mm' = [mm EXCEPT
                  !.fold = @ + 1,
                  !.grids = Append(@, grid),
                  !.casc_lens = Append(@, casc_len),
                  !.refits = Append(@,
                      RidgeCalls(ElasticNetRegpath(mm.mu, grid, casc_len), ncols)),
                  !.max_tau_num = NextMaxTauNum(mm.max_tau_num, casc_len),
                  !.err_ts = Append(@, [j \in 1..casc_len |->
                                          [k \in 1..ncols |-> TestError(s, j, k)]]),
                  !.err_tr = Append(@, [j \in 1..casc_len |->
                                          [k \in 1..ncols |-> TrainError(s, j, k)]])]
    /\ UNCHANGED <<call, fista, path, soft, top, ms, nl>>

\* After the loop: lines 114 to 125.  The mean of no fold is a scalar nan,
\* and unpacking np.where of it raises ValueError; min() of a surface with
\* no row or no column raises ValueError.
MM_Select ==
    /\ mm.pc = "folds"
    /\ mm.fold = mm.n_folds
    /\ LET ncols == Len(mm.lambda_range)
       IN  IF mm.n_folds = 0
           THEN mm' = [mm EXCEPT !.pc = "raised", !.raised = "ValueError"]
           ELSE LET err_ts == MeanSurface(mm.err_ts, mm.max_tau_num, ncols)
                    err_tr == MeanSurface(mm.err_tr, mm.max_tau_num, ncols)
                    shape == <<Len(err_ts), ncols>>
                    opt_idx == Where(err_ts, RatMin(Flatten(err_ts)))
                    tau_opt == mm.tau_range[opt_idx[1][1]]
                    lambda_opt == mm.lambda_range[opt_idx[1][2]]
                    m == [mm EXCEPT !.surface_ts = err_ts, !.surface_tr = err_tr,
                                    !.shape = shape]
                IN  IF shape[1] = 0 \/ shape[2] = 0
                    THEN mm' = [m EXCEPT !.pc = "raised", !.raised = "ValueError"]
                    ELSE mm' = [m EXCEPT
                           !.pc = "returned",
                           !.out = IF mm.returns_kcv_errors
                                   THEN <<tau_opt, lambda_opt, err_ts, err_tr>>
                                   ELSE <<tau_opt, lambda_opt>>]
    /\ UNCHANGED <<call, fista, path, soft, top, ms, nl>>

\* ----------------------------------------------------------- nested_lists
\* list.append(item)
ListPrepend(list, item) == <<item>> \o list

ListAppend(list, item) == Append(list, item)

\* the entry of nested_lists: lines 132 to 142 (no normalizer)
NestedListsEnter(tau, lambda_, mu_range, error_function) ==
    [pc |-> "loop", tau |-> tau, lambda_ |-> lambda_, mu_range |-> mu_range,
     error_function |-> error_function, i |-> 0,
     beta_list |-> <<>>, selected_list |-> <<>>,
     err_tr_list |-> <<>>, err_ts_list |-> <<>>, out |-> <<>>]

\* One pass of the loop over mu_range: lines 144 to 158
NL_Iter ==
    /\ nl.pc = "loop"
    /\ nl.i < Len(nl.mu_range)
    /\ LET mu == nl.mu_range[nl.i + 1]
           selected == Selected(ElasticNet(mu, nl.tau))
           beta == RidgeRegression(selected, nl.lambda_)
       IN  nl' = [nl EXCEPT
              !.i = @ + 1,
              !.err_tr_list = IF nl.error_function
                              THEN ListAppend(@, ErrorOf("train", beta)) ELSE @,
              !.err_ts_list = IF nl.error_function
                              THEN ListAppend(@, ErrorOf("test", beta)) ELSE @,
              !.beta_list = ListAppend(@, beta),
              !.selected_list = ListAppend(@, selected)]
    /\ UNCHANGED <<call, fista, path, soft, top, ms, mm>>

\* lines 160 to 163
NL_Return ==
    /\ nl.pc = "loop"
    /\ nl.i = Len(nl.mu_range)
    /\ nl' = [nl EXCEPT
          !.pc = "returned",
          !.out = IF nl.error_function
                  THEN <<nl.beta_list, nl.selected_list,
                         nl.err_tr_list, nl.err_ts_list>>
                  ELSE <<nl.beta_list, nl.selected_list>>]
    /\ UNCHANGED <<call, fista, path, soft, top, ms, mm>>

\* -------------------------------------------------------- model_selection
\* return stage1_out + stage2_out
ModelSelectionResultStage1Only(stage1_out, stage2_out) == stage1_out

ModelSelectionResult(stage1_out, stage2_out) == stage1_out \o stage2_out

\* lines 55 to 59: mu_range[0] of an empty mu_range raises IndexError
MS_Enter ==
    /\ top.entry = "model_selection"
    /\ ms.pc = "idle"
    /\ IF top.mu_range = <<>>
       THEN /\ ms' = [pc |-> "raised", raised |-> "IndexError", out |-> <<>>]
            /\ UNCHANGED mm
       ELSE /\ ms' = [pc |-> "stage1", raised |-> "no", out |-> <<>>]
            /\ mm' = MinimalModelEnter(top.mu_range[1], top.tau_range,
                                       top.lambda_range, top.n_folds,
                                       top.returns_kcv_errors)
    /\ UNCHANGED <<call, fista, path, soft, top, nl>>

\* lines 60 to 66
MS_Stage2 ==
    /\ ms.pc = "stage1"
    /\ mm.pc \in {"returned", "raised"}
    /\ IF mm.pc = "raised"
       THEN /\ ms' = [ms EXCEPT !.pc = "raised", !.raised = mm.raised]
            /\ UNCHANGED nl
       ELSE LET stage1_out == mm.out
                tau_opt == stage1_out[1]
                lambda_opt == stage1_out[2]
            IN  /\ ms' = [ms EXCEPT !.pc = "stage2"]
                /\ nl' = NestedListsEnter(tau_opt, lambda_opt, top.mu_range,
                                          top.error_function)
    /\ UNCHANGED <<call, fista, path, soft, top, mm>>

\* line 68
MS_Return ==
    /\ ms.pc = "stage2"
    /\ nl.pc = "returned"
    /\ ms' = [ms EXCEPT !.pc = "returned",
                        !.out = ModelSelectionResult(mm.out, nl.out)]
    /\ UNCHANGED <<call, fista, path, soft, top, mm, nl>>

\* minimal_model and nested_lists called on their own
MM_Call ==
    /\ top.entry = "minimal_model"
    /\ mm.pc = "idle"
    /\ mm' = MinimalModelEnter(top.mu, top.tau_range, top.lambda_range,
                               top.n_folds, top.returns_kcv_errors)
    /\ UNCHANGED <<call, fista, path, soft, top, ms, nl>>

NL_Call ==
    /\ top.entry = "nested_lists"
    /\ nl.pc = "idle"
    /\ nl' = NestedListsEnter(top.tau, top.lambda_, top.mu_range,
                              top.error_function)
    /\ UNCHANGED <<call, fista, path, soft, top, ms, mm>>

\* ----------------------------------------------------------------- inputs
\* strictly decreasing sparsity grids, growing ridge grids
TauGrid(n) == [j \in 1..n |-> MaxTau + 1 - j]

LambdaGrid(n) == [k \in 1..n |-> 5 * k]

\* the grids a caller passes: of every length from none, and one whose
\* penalty is not positive
TauRanges == {TauGrid(n) : n \in 0..MaxTau} \cup {<<0>>}

LambdaRanges == {LambdaGrid(n) : n \in 0..MaxLambda} \cup {<<0>>}

MuRanges ==
    {[i \in 1..n |-> i - 1] : n \in 0..MaxMu}
        \cup {[i \in 1..n |-> MaxMu - i] : n \in 0..MaxMu}

Tops ==
    { [entry |-> e, mu |-> 2 * NFeatures - MaxTau, tau |-> 0, lambda_ |-> 0,
       mu_range |-> IF e = "model_selection" THEN mr ELSE <<>>,
       tau_range |-> tr, lambda_range |-> lr,
       n_folds |-> nf, error_function |-> TRUE, returns_kcv_errors |-> r] :
        e \in {"minimal_model", "model_selection"}, mr \in MuRanges,
        tr \in TauRanges, lr \in LambdaRanges, nf \in 0..MaxFolds,
        r \in BOOLEAN }
    \cup
    { [entry |-> "nested_lists", mu |-> 0, tau |-> t, lambda_ |-> 5 * l,
       mu_range |-> mr, tau_range |-> <<>>, lambda_range |-> <<>>,
       n_folds |-> 0, error_function |-> ef, returns_kcv_errors |-> FALSE] :
        t \in 1..2 * NFeatures, l \in 1..MaxLambda, mr \in MuRanges,
        ef \in BOOLEAN }

\* ------------------------------------------------- the selection: SpecSel
InitSel ==
    /\ top \in Tops
    /\ ms = NoFrame
    /\ mm = NoFrame
    /\ nl = NoFrame
    /\ call = NoCall
    /\ fista = NoFista
    /\ path = NoPath
    /\ soft = NoSoft

NextSel ==
    \/ MM_Call
    \/ MM_Fold
    \/ MM_Select
    \/ NL_Call
    \/ NL_Iter
    \/ NL_Return
    \/ MS_Enter
    \/ MS_Stage2
    \/ MS_Return

SpecSel == InitSel /\ [][NextSel]_<<call, fista, path, soft, selVars>>

\* ---------------------------------------------- claims on the selection
\* the cells of the fold-averaged test surface, row by row
SurfaceCells == Flatten(mm.surface_ts)

IsSurfaceMin(cell) ==
    \A n \in 1..Len(SurfaceCells) : ~RatLess(SurfaceCells[n], cell)

\* (i, k) comes before (j, l) in row-major order
RowMajorBefore(i, k, j, l) == i < j \/ (i = j /\ k < l)

\* the smallest path length over the folds processed
RECURSIVE MinOf(_)
MinOf(lens) ==
    IF Len(lens) = 1 THEN lens[1]
    ELSE LET m == MinOf(Tail(lens)) IN IF lens[1] <= m THEN lens[1] ELSE m

\* C1: minimal_model returns (tau_range[i], lambda_range[k]) for a cell
\* (i, k) of the fold-averaged test surface whose value is the minimum of
\* the whole surface, the first such cell in row-major order.
C1_FirstMinimalCell ==
    mm.pc = "returned" =>
        \E i \in 1..Len(mm.surface_ts) : \E k \in 1..Len(mm.lambda_range) :
            /\ mm.out[1] = mm.tau_range[i]
            /\ mm.out[2] = mm.lambda_range[k]
            /\ IsSurfaceMin(mm.surface_ts[i][k])
            /\ \A j \in 1..Len(mm.surface_ts) : \A l \in 1..Len(mm.lambda_range) :
                   RowMajorBefore(j, l, i, k) => ~IsSurfaceMin(mm.surface_ts[j][l])

\* several cells attain the minimum and the first of them is not cell (1, 1)
C1_Witness ==
    /\ mm.pc = "returned"
    /\ mm.n_folds >= 2
    /\ Cardinality({n \in 1..Len(SurfaceCells) : IsSurfaceMin(SurfaceCells[n])}) >= 2
    /\ ~IsSurfaceMin(mm.surface_ts[1][1])

\* C2: the averaged surface has exactly L rows and len(lambda_range)
\* columns, L the smallest path length over the folds, and each cell is the
\* mean over all folds of that cell of the per-fold error matrices.
C2_SurfaceOfCommonRows ==
    (mm.pc \in {"returned", "raised"} /\ mm.n_folds >= 1) =>
        LET L == MinOf(mm.casc_lens)
        IN  /\ mm.shape = <<L, Len(mm.lambda_range)>>
            /\ Len(mm.surface_ts) = L
            /\ \A j \in 1..L : \A k \in 1..Len(mm.lambda_range) :
                  /\ mm.surface_ts[j][k] =
                        <<SumSeq([f \in 1..mm.n_folds |-> mm.err_ts[f][j][k]]),
                          mm.n_folds>>
                  /\ mm.surface_tr[j][k] =
                        <<SumSeq([f \in 1..mm.n_folds |-> mm.err_tr[f][j][k]]),
                          mm.n_folds>>

\* folds of different path lengths, the shortest shorter than the grid
C2_Witness ==
    /\ mm.pc = "returned"
    /\ mm.n_folds >= 2
    /\ \E f, g \in 1..mm.n_folds : mm.casc_lens[f] < mm.casc_lens[g]
    /\ Len(mm.surface_ts) < Len(mm.tau_range)
    /\ \E f \in 1..mm.n_folds : Len(mm.err_ts[f]) > Len(mm.surface_ts)
    /\ \E k \in 1..Len(mm.lambda_range) :
          mm.err_ts[1][1][k] # mm.err_ts[2][1][k]

\* C9: nested_lists returns a coefficient list and a mask list of length
\* len(mu_range), and with an error function train and test error lists of
\* that length; entry i of each is the result computed for mu_range[i].
C9_ListsAlignedWithMuRange ==
    nl.pc = "returned" =>
        LET n == Len(nl.mu_range)
            mask(i) == Selected(ElasticNet(nl.mu_range[i], nl.tau))
            beta(i) == RidgeRegression(mask(i), nl.lambda_)
        IN  /\ Len(nl.out) = IF nl.error_function THEN 4 ELSE 2
            /\ Len(nl.out[1]) = n
            /\ Len(nl.out[2]) = n
            /\ \A i \in 1..n : nl.out[1][i] = beta(i) /\ nl.out[2][i] = mask(i)
            /\ nl.error_function =>
                  /\ Len(nl.out[3]) = n
                  /\ Len(nl.out[4]) = n
                  /\ \A i \in 1..n :
                        /\ nl.out[3][i] = ErrorOf("train", beta(i))
                        /\ nl.out[4][i] = ErrorOf("test", beta(i))

\* a range of two strengths that select different features
C9_Witness ==
    /\ nl.pc = "returned"
    /\ nl.error_function
    /\ Len(nl.mu_range) >= 2
    /\ nl.out[2][1] # nl.out[2][2]
    /\ nl.out[3][1] # nl.out[3][2]

\* C10: model_selection runs minimal_model with mu_range[0], hands the
\* (tau_opt, lambda_opt) it returned and the full mu_range to nested_lists,
\* and returns the outputs of the first stage (2 items, 4 with
\* returns_kcv_errors) followed by those of the second stage.
C10_StagesComposed ==
    top.entry = "model_selection" =>
        /\ ms.pc \in {"stage1", "stage2", "returned"} => mm.mu = top.mu_range[1]
        /\ ms.pc \in {"stage2", "returned"} =>
              /\ nl.tau = mm.out[1]
              /\ nl.lambda_ = mm.out[2]
              /\ nl.mu_range = top.mu_range
        /\ ms.pc = "returned" =>
              /\ Len(mm.out) = IF top.returns_kcv_errors THEN 4 ELSE 2
              /\ Len(ms.out) = Len(mm.out) + Len(nl.out)
              /\ \A n \in 1..Len(mm.out) : ms.out[n] = mm.out[n]
              /\ \A n \in 1..Len(nl.out) : ms.out[Len(mm.out) + n] = nl.out[n]

\* both stages ran on a range whose first strength is not its only one
C10_Witness ==
    /\ ms.pc = "returned"
    /\ top.returns_kcv_errors
    /\ Len(top.mu_range) >= 2
    /\ top.mu_range[1] # top.mu_range[2]
    /\ Len(ms.out) = 8
    /\ mm.out[1] # top.tau_range[1]

\* the mask selects no feature: the refit matrix has no column
EmptySubset(selected) == \A f \in 1..Len(selected) : ~selected[f]

\* C11: in minimal_model and nested_lists an empty selected-feature subset
\* is detected and reported before ridge_regression is invoked on it, so
\* ridge_regression is never called on a mask that selects no feature.
C11_EmptySubsetDetected ==
    /\ mm.pc \in {"folds", "returned", "raised"} =>
          \A i \in 1..Len(mm.refits) : \A j \in 1..Len(mm.refits[i]) :
              ~EmptySubset(mm.refits[i][j])
    /\ nl.pc \in {"loop", "returned"} =>
          \A i \in 1..Len(nl.beta_list) : ~EmptySubset(nl.beta_list[i].ridge)

\* a penalty grid that is empty or holds a penalty that is not positive
InvalidGrid(grid) == grid = <<>> \/ \E j \in 1..Len(grid) : grid[j] <= 0

\* C12: minimal_model called with an empty or non-positive tau_range or
\* lambda_range fails at entry: no fold is processed, no path solver or
\* ridge call is made, and no result is returned.
C12_InvalidGridFailsAtEntry ==
    (/\ mm.pc \in {"folds", "returned", "raised"}
     /\ InvalidGrid(mm.tau_range) \/ InvalidGrid(mm.lambda_range)) =>
        /\ mm.fold = 0
        /\ mm.grids = <<>>
        /\ mm.refits = <<>>
        /\ mm.pc # "returned"

\* C13 as stated: no value written in one fold is read in another, so the
\* grid handed to the path solver of every fold is the one the first fold
\* is handed, the whole tau_range, whatever folds came before (looked at
\* for calls whose two grids are nonempty and positive).
C13_NoCrossFoldState ==
    (/\ mm.pc \in {"folds", "returned", "raised"}
     /\ ~InvalidGrid(mm.tau_range)
     /\ ~InvalidGrid(mm.lambda_range)) =>
        \A i \in 1..Len(mm.grids) : mm.grids[i] = mm.tau_range

\* the value of max_tau_num on entry to fold i: the smallest of
\* len(tau_range) and the path lengths of the folds before it
CascadeCap(i) == MinOf(<<Len(mm.tau_range)>> \o SubSeq(mm.casc_lens, 1, i - 1))

\* C13 amended: max_tau_num is carried from fold to fold.  The grid handed
\* to the path solver of fold i is tau_range cut to the smallest path
\* length of the folds before it, and the fold's two error matrices have
\* one row for each entry of its own path.
C13_OnlyCascadeLengthCrossesFolds ==
    mm.pc \in {"folds", "returned", "raised"} =>
        /\ Len(mm.grids) = mm.fold
        /\ Len(mm.casc_lens) = mm.fold
        /\ mm.max_tau_num = CascadeCap(mm.fold + 1)
        /\ \A i \in 1..mm.fold :
              /\ mm.grids[i] = Take(mm.tau_range, CascadeCap(i))
              /\ Len(mm.err_ts[i]) = mm.casc_lens[i]
              /\ Len(mm.err_tr[i]) = mm.casc_lens[i]

\* a second fold that was handed a shorter grid than the first because the
\* path of the first came back shorter than tau_range
C13_Witness ==
    /\ mm.pc \in {"folds", "returned"}
    /\ mm.fold >= 2
    /\ mm.casc_lens[1] >= 1
    /\ mm.casc_lens[1] < Len(mm.tau_range)
    /\ mm.grids[1] = mm.tau_range
    /\ Len(mm.grids[2]) = mm.casc_lens[1]
    /\ mm.grids[2] # mm.grids[1]

=============================================================================
